---- MODULE Spec2Model ----
(***************************************************************************)
(* E-commerce backend (FastAPI + MongoDB): accounts, token service,        *)
(* authorization resolver, catalog, carts and the order workflow.          *)
(*                                                                         *)
(* Collections are modelled in MongoDB's natural (insertion) order, so     *)
(* find_one / update_one / delete_one act on the first matching document.  *)
(* uuid4 identities are modelled as <<kind, n>> with n drawn from a        *)
(* per-kind counter: fresh, never reused, distinct across collections.     *)
(* Inert payload fields (username, product name and description) are left  *)
(* out of the documents.  Every handler is one atomic action in Spec; the  *)
(* handlers that race are also given step by step, one action per storage  *)
(* round trip, with the requests in flight kept in calls.                  *)
(***************************************************************************)
EXTENDS Integers, Sequences, FiniteSets, TLC

VARIABLES users, admins, products, carts, orders, tokens, now, ids, resp, calls

store == <<users, admins, products, carts, orders>>
vars == <<users, admins, products, carts, orders, tokens, now, ids, resp, calls>>

----------------------------------------------------------------------------
(* Bounds of the model *)

MaxUsers == 2
MaxAdmins == 1
MaxProducts == 1
MaxOrders == 2
MaxQty == 3
MaxTokens == 2
MaxTime == 62
MaxCalls == 2

(* Program constants *)

EXPIRATION_DURATION == 60

(* Input domains *)

Emails == {"a@x", "b@x"}
Passwords == {"pw", "wrong"}
RegPasswords == {"pw"}
Addresses == {"addr1", "addr2"}
RegAddresses == {"addr1"}
Prices == {50, 100}
Stock == {5}
NewStock == {5, 6}
Qtys == {1, 2}
Pages == {1, 2}
PageSizes == {1, 50}

Absent == "<absent>"

----------------------------------------------------------------------------
(* Optional values: None is the empty tuple, Some(x) the one-element tuple *)

None == <<>>
Some(x) == <<x>>

(* passlib CryptContext(schemes=["argon2"]): hash and verify *)

Hash(pw) == <<"argon2", pw>>
Verify(pw, hashed) == hashed[1] = "argon2" /\ hashed[2] = pw

(* Index of the first document of col satisfying Test, 0 when there is none *)

FirstIndex(col, Test(_)) ==
    IF \E i \in 1..Len(col) : Test(col[i])
    THEN CHOOSE i \in 1..Len(col) :
            Test(col[i]) /\ \A j \in 1..(i - 1) : ~Test(col[j])
    ELSE 0

RemoveAt(col, i) == SubSeq(col, 1, i - 1) \o SubSeq(col, i + 1, Len(col))

IndexByEmail(col, email) == LET T(d) == d.email = email IN FirstIndex(col, T)
IndexById(col, id) == LET T(d) == d.id = id IN FirstIndex(col, T)

(* database.get_user / database.get_admin: find_one({"email": email}) *)

get_user(ucol, email) ==
    LET i == IndexByEmail(ucol, email) IN IF i = 0 THEN None ELSE Some(ucol[i])

get_admin(acol, email) ==
    LET i == IndexByEmail(acol, email) IN IF i = 0 THEN None ELSE Some(acol[i])

----------------------------------------------------------------------------
(* Token service *)

(* A token is its payload (email, role, exp) and whether it carries a       *)
(* signature made with SECRET_KEY.  issued_at and ttl are history fields:  *)
(* they record the call that made the token and are read by no operation.  *)
Token(email, role, exp, issued_at, ttl) ==
    [email |-> email, role |-> role, exp |-> exp, signed |-> TRUE,
     issued_at |-> issued_at, ttl |-> ttl]

(* A missing Authorization header, or a bearer string that is not a token  *)
(* signed with SECRET_KEY                                                  *)
Garbage == [email |-> Absent, role |-> Absent, exp |-> 0, signed |-> FALSE,
            issued_at |-> 0, ttl |-> <<>>]

(* create_access_token(data, expiriration), ttl an Optional[timedelta] in   *)
(* minutes: "if expiriration:" is Python truthiness, so timedelta(0) takes *)
(* the default branch like None does.                                      *)
create_access_token(email, role, ttl, clock) ==
    IF ttl # None /\ ttl[1] # 0
    THEN Token(email, role, clock + ttl[1], clock, ttl)
    ELSE Token(email, role, clock + EXPIRATION_DURATION, clock, ttl)

(* jose jwt.decode: JWTError on a bad signature, or when exp < now *)
JwtValid(t, clock) == t.signed /\ ~(t.exp < clock)

(* get_current_user: status 200 with the stored document, 401 for          *)
(* credentials_exception, 500 for the KeyError of payload["email"] /       *)
(* payload["role"], which "except JWTError" does not catch.                *)
Resolved(doc) == [status |-> 200, doc |-> Some(doc)]
Rejected(code) == [status |-> code, doc |-> None]

(* get_current_user with the role dispatch weakened: a role other than     *)
(* "admin" is looked up in the user collection.                            *)
get_current_user_any_role(t, clock, ucol, acol) ==
    IF ~JwtValid(t, clock) THEN Rejected(401)
    ELSE IF t.email = Absent \/ t.role = Absent THEN Rejected(500)
    ELSE IF t.role = "admin"
         THEN LET a == get_admin(acol, t.email) IN
              IF a = None THEN Rejected(401) ELSE Resolved(a[1])
    ELSE LET u == get_user(ucol, t.email) IN
         IF u = None THEN Rejected(401) ELSE Resolved(u[1])

get_current_user(t, clock, ucol, acol) ==
    IF ~JwtValid(t, clock) THEN Rejected(401)
    ELSE IF t.email = Absent \/ t.role = Absent THEN Rejected(500)
    ELSE IF t.role = "user"
         THEN LET u == get_user(ucol, t.email) IN
              IF u = None THEN Rejected(401) ELSE Resolved(u[1])
    ELSE IF t.role = "admin"
         THEN LET a == get_admin(acol, t.email) IN
              IF a = None THEN Rejected(401) ELSE Resolved(a[1])
    ELSE Rejected(401)

(* get_current_admin with the is_admin check left out *)
get_current_admin_unchecked(t, clock, ucol, acol) == get_current_user(t, clock, ucol, acol)

(* get_current_admin: 403 unless current_user.get("is_admin") *)
get_current_admin(t, clock, ucol, acol) ==
    LET r == get_current_user(t, clock, ucol, acol) IN
    IF r.status # 200 THEN r
    ELSE IF ~r.doc[1].is_admin THEN Rejected(403)
    ELSE r

CurrentUser(t) == get_current_user(t, now, users, admins)
CurrentAdmin(t) == get_current_admin(t, now, users, admins)

(* What a client can put in the Authorization header *)
Presentable == tokens \cup {Garbage}

----------------------------------------------------------------------------
(* Responses *)

(* The last response: the operation, the token the request presented, the *)
(* HTTP status and a tag for the body.                                     *)
Response(op, t, status, body) == [op |-> op, token |-> t, status |-> status, body |-> body]

Idle == Response("none", Garbage, 0, "")

Reply(op, t, status, body) == resp' = Response(op, t, status, body)

(* The response of a listing: the response dict beside the body tag *)
ReplyListing(op, t, listing) ==
    resp' = [op |-> op, token |-> t, status |-> 200, body |-> "page", listing |-> listing]

(* The response of an address update: the document the handler reads back *)
(* with the projection {"_id": 0}, every other field included.            *)
ReplyDocument(op, t, body, doc) ==
    resp' = [op |-> op, token |-> t, status |-> 200, body |-> body, doc |-> doc]

(* A dependency (get_current_user / get_current_admin) raised: the handler *)
(* body never runs.                                                        *)
Deny(op, t, status) ==
    /\ Reply(op, t, status, IF status = 401 THEN "Could not validate credentials"
                         ELSE IF status = 403 THEN "Forbidden"
                         ELSE "Internal Server Error")
    /\ UNCHANGED <<store, tokens, now, calls, ids>>

Init ==
    /\ users = <<>>
    /\ admins = <<>>
    /\ products = <<>>
    /\ carts = <<>>
    /\ orders = <<>>
    /\ tokens = {}
    /\ now = 0
    /\ ids = [user |-> 0, admin |-> 0, product |-> 0, order |-> 0]
    /\ resp = Idle
    /\ calls = <<>>

----------------------------------------------------------------------------
(* Accounts: route/user_route.py, route/admin_route.py *)

Principal(id, email, password, address, is_admin) ==
    [id |-> id, email |-> email, password |-> Hash(password),
     address |-> address, is_admin |-> is_admin]

(* add_user without the existence check *)
add_user_unchecked(email, password, address, is_admin) ==
    /\ ids.user < MaxUsers
    /\ users' = Append(users, Principal(<<"user", ids.user + 1>>, email,
                                         password, address, is_admin))
    /\ ids' = [ids EXCEPT !.user = @ + 1]
    /\ Reply("add_user", Garbage, 200, "User added")
    /\ UNCHANGED <<admins, products, carts, orders, tokens, now, calls>>

add_user(email, password, address, is_admin) ==
    IF IndexByEmail(users, email) # 0
       THEN /\ Reply("add_user", Garbage, 200, "already exist")
            /\ UNCHANGED <<store, tokens, now, calls, ids>>
       ELSE /\ ids.user < MaxUsers
            /\ users' = Append(users, Principal(<<"user", ids.user + 1>>, email,
                                                 password, address, is_admin))
            /\ ids' = [ids EXCEPT !.user = @ + 1]
            /\ Reply("add_user", Garbage, 200, "User added")
            /\ UNCHANGED <<admins, products, carts, orders, tokens, now, calls>>

add_admin(email, password, address, is_admin) ==
    IF IndexByEmail(admins, email) # 0
       THEN /\ Reply("add_admin", Garbage, 200, "already exist")
            /\ UNCHANGED <<store, tokens, now, calls, ids>>
       ELSE /\ ids.admin < MaxAdmins
            /\ admins' = Append(admins, Principal(<<"admin", ids.admin + 1>>, email,
                                                   password, address, is_admin))
            /\ ids' = [ids EXCEPT !.admin = @ + 1]
            /\ Reply("add_admin", Garbage, 200, "User added")
            /\ UNCHANGED <<users, products, carts, orders, tokens, now, calls>>

(* tokens is the set of tokens handed to clients so far; the model keeps   *)
(* at most MaxTokens of them.                                              *)
Hand(t) ==
    /\ t \in tokens \/ Cardinality(tokens) < MaxTokens
    /\ tokens' = tokens \cup {t}

(* The token login hands out for the document it verified.  With          *)
(* "recorded" the token also carries issued_to, the id of that document;   *)
(* issued_to is not in the payload (that is {"email", "role", "exp"}) and  *)
(* no handler reads it: it is there for properties to refer to.            *)
LoginToken(doc, role, clock, recorded) ==
    IF recorded
    THEN create_access_token(doc.email, role, None, clock) @@ [issued_to |-> doc.id]
    ELSE create_access_token(doc.email, role, None, clock)

(* route/auth.py login: the 401 is raised inside "try" and the handler's   *)
(* "except Exception" turns it into a 500 whose detail is str(e).          *)
login_recording(email, password, recorded) ==
    LET user == get_user(users, email)
        admin == get_admin(admins, email)
    IN  /\ UNCHANGED <<store, now, calls, ids>>
        /\ IF user # None /\ Verify(password, user[1].password)
           THEN /\ Hand(LoginToken(user[1], "user", now, recorded))
                /\ Reply("login", Garbage, 200, "access_token")
           ELSE IF admin # None /\ Verify(password, admin[1].password)
           THEN /\ Hand(LoginToken(admin[1], "admin", now, recorded))
                /\ Reply("login", Garbage, 200, "access_token")
           ELSE /\ Reply("login", Garbage, 500, "401: Incorrect email or password")
                /\ UNCHANGED tokens

login(email, password) == login_recording(email, password, FALSE)

update_user_address(t, email, address) ==
    LET auth == CurrentUser(t)
        i == IndexByEmail(users, email)
    IN  IF auth.status # 200 THEN Deny("update_user_address", t, auth.status)
        ELSE IF i # 0
        THEN /\ users' = [users EXCEPT ![i].address = address]
             /\ ReplyDocument("update_user_address", t, "user document", users'[i])
             /\ UNCHANGED <<admins, products, carts, orders, tokens, now, calls, ids>>
        ELSE /\ Reply("update_user_address", t, 200, "does not exist")
             /\ UNCHANGED <<store, tokens, now, calls, ids>>

delete_your_account(t) ==
    LET auth == CurrentUser(t)
        i == IF auth.status = 200 THEN IndexByEmail(users, auth.doc[1].email) ELSE 0
    IN  IF auth.status # 200 THEN Deny("delete_your_account", t, auth.status)
        ELSE IF i = 0
        THEN /\ Reply("delete_your_account", t, 200, "does not exist")
             /\ UNCHANGED <<store, tokens, now, calls, ids>>
        ELSE /\ users' = RemoveAt(users, i)
             /\ Reply("delete_your_account", t, 200, "deleted")
             /\ UNCHANGED <<admins, products, carts, orders, tokens, now, calls, ids>>

update_admin_address(t, address) ==
    LET auth == CurrentAdmin(t)
        i == IF auth.status = 200 THEN IndexByEmail(admins, auth.doc[1].email) ELSE 0
    IN  IF auth.status # 200 THEN Deny("update_admin_address", t, auth.status)
        ELSE IF i # 0
        THEN /\ admins' = [admins EXCEPT ![i].address = address]
             /\ ReplyDocument("update_admin_address", t, "admin document", admins'[i])
             /\ UNCHANGED <<users, products, carts, orders, tokens, now, calls, ids>>
        ELSE /\ Reply("update_admin_address", t, 200, "does not exist")
             /\ UNCHANGED <<store, tokens, now, calls, ids>>

delete_admin(t) ==
    LET auth == CurrentAdmin(t)
        i == IF auth.status = 200 THEN IndexByEmail(admins, auth.doc[1].email) ELSE 0
    IN  IF auth.status # 200 THEN Deny("delete_admin", t, auth.status)
        ELSE IF i = 0
        THEN /\ Reply("delete_admin", t, 200, "does not exist")
             /\ UNCHANGED <<store, tokens, now, calls, ids>>
        ELSE /\ admins' = RemoveAt(admins, i)
             /\ Reply("delete_admin", t, 200, "deleted")
             /\ UNCHANGED <<users, products, carts, orders, tokens, now, calls, ids>>

delete_user(t, email) ==
    LET auth == CurrentAdmin(t)
        i == IndexByEmail(users, email)
    IN  IF auth.status # 200 THEN Deny("delete_user", t, auth.status)
        ELSE IF i = 0
        THEN /\ Reply("delete_user", t, 200, "does not exist")
             /\ UNCHANGED <<store, tokens, now, calls, ids>>
        ELSE /\ users' = RemoveAt(users, i)
             /\ Reply("delete_user", t, 200, "deleted")
             /\ UNCHANGED <<admins, products, carts, orders, tokens, now, calls, ids>>

----------------------------------------------------------------------------
(* Catalog: route/product_route.py (admin only) *)

add_product(t, price, quantity) ==
    LET auth == CurrentAdmin(t) IN
    IF auth.status # 200 THEN Deny("add_product", t, auth.status)
    ELSE /\ ids.product < MaxProducts
         /\ products' = Append(products, [id |-> <<"product", ids.product + 1>>,
                                           price |-> price, quantity |-> quantity])
         /\ ids' = [ids EXCEPT !.product = @ + 1]
         /\ Reply("add_product", t, 200, "Product added successfully")
         /\ UNCHANGED <<users, admins, carts, orders, tokens, now, calls>>

(* update_product_price that also re-prices the stored orders *)
update_product_price_repricing(t, id, price) ==
    LET auth == CurrentAdmin(t)
        i == IndexById(products, id)
    IN  /\ auth.status = 200
        /\ i # 0
        /\ products' = [products EXCEPT ![i].price = price]
        /\ orders' = [n \in 1..Len(orders) |->
                         [orders[n] EXCEPT !.amount = Len(orders[n].all_product) * price]]
        /\ Reply("update_product_price", t, 200, "product document")
        /\ UNCHANGED <<users, admins, carts, tokens, now, calls, ids>>

update_product_price(t, id, price) ==
    LET auth == CurrentAdmin(t)
        i == IndexById(products, id)
    IN  IF auth.status # 200 THEN Deny("update_product_price", t, auth.status)
        ELSE IF i # 0
        THEN /\ products' = [products EXCEPT ![i].price = price]
             /\ Reply("update_product_price", t, 200, "product document")
             /\ UNCHANGED <<users, admins, carts, orders, tokens, now, calls, ids>>
        ELSE /\ Reply("update_product_price", t, 200, "does not exist")
             /\ UNCHANGED <<store, tokens, now, calls, ids>>

update_product_quantity(t, id, quantity) ==
    LET auth == CurrentAdmin(t)
        i == IndexById(products, id)
    IN  IF auth.status # 200 THEN Deny("update_product_quantity", t, auth.status)
        ELSE IF i # 0
        THEN /\ products' = [products EXCEPT ![i].quantity = quantity]
             /\ Reply("update_product_quantity", t, 200, "product document")
             /\ UNCHANGED <<users, admins, carts, orders, tokens, now, calls, ids>>
        ELSE /\ Reply("update_product_quantity", t, 200, "does not exist")
             /\ UNCHANGED <<store, tokens, now, calls, ids>>

(* delete_product that answers an unknown id with a 404 *)
delete_product_strict(t, id) ==
    LET auth == CurrentAdmin(t)
        i == IndexById(products, id)
    IN  IF auth.status # 200 THEN Deny("delete_product", t, auth.status)
        ELSE IF i # 0
        THEN /\ products' = RemoveAt(products, i)
             /\ Reply("delete_product", t, 200, "deleted")
             /\ UNCHANGED <<users, admins, carts, orders, tokens, now, calls, ids>>
        ELSE /\ Reply("delete_product", t, 404, "does not exist")
             /\ UNCHANGED <<store, tokens, now, calls, ids>>

delete_product(t, id) ==
    LET auth == CurrentAdmin(t)
        i == IndexById(products, id)
    IN  IF auth.status # 200 THEN Deny("delete_product", t, auth.status)
        ELSE IF i # 0
        THEN /\ products' = RemoveAt(products, i)
             /\ Reply("delete_product", t, 200, "deleted")
             /\ UNCHANGED <<users, admins, carts, orders, tokens, now, calls, ids>>
        ELSE /\ Reply("delete_product", t, 200, "does not exist")
             /\ UNCHANGED <<store, tokens, now, calls, ids>>

----------------------------------------------------------------------------
(* Carts: model.py Cart, route/cart_route.py.  carts maps a user id to the *)
(* items of that user's cart document.                                     *)

Cartitems(product_id, quantity) == [product_id |-> product_id, quantity |-> quantity]

HasLine(items, product_id) == \E i \in 1..Len(items) : items[i].product_id = product_id

(* Cart.add_items with the search left out: the line is always appended *)
add_items_append(items, product_id, quantity) ==
    Append(items, Cartitems(product_id, quantity))

(* Cart.add_items *)
add_items(items, product_id, quantity) ==
    IF HasLine(items, product_id)
    THEN [i \in 1..Len(items) |->
            IF items[i].product_id = product_id
            THEN [items[i] EXCEPT !.quantity = @ + quantity]
            ELSE items[i]]
    ELSE Append(items, Cartitems(product_id, quantity))

(* Cart.remove_item *)
KeepLine(product_id, it) == it.product_id # product_id

remove_lines(items, product_id) ==
    LET Keep(it) == KeepLine(product_id, it) IN SelectSeq(items, Keep)

HasCart(cs, user_id) == user_id \in DOMAIN cs
Upsert(cs, user_id, items) == (user_id :> items) @@ cs
(* delete_one that deletes nothing *)
DropCart_nothing(cs, user_id) == cs

DropCart(cs, user_id) == [k \in (DOMAIN cs) \ {user_id} |-> cs[k]]

WithinCartBounds(items) ==
    \A i \in 1..Len(items) : -MaxQty <= items[i].quantity /\ items[i].quantity <= MaxQty

get_items(t) ==
    LET auth == CurrentUser(t) IN
    IF auth.status # 200 THEN Deny("get_items", t, auth.status)
    ELSE /\ Reply("get_items", t, 200,
                  IF HasCart(carts, auth.doc[1].id) THEN "cart document"
                  ELSE "The Cart is Empty")
         /\ UNCHANGED <<store, tokens, now, calls, ids>>

add_item(t, product_id, quantity) ==
    LET auth == CurrentUser(t) IN
    IF auth.status # 200 THEN Deny("add_item", t, auth.status)
    ELSE LET uid == auth.doc[1].id
             old == IF HasCart(carts, uid) THEN carts[uid] ELSE <<>>
             new == add_items(old, product_id, quantity)
         IN  /\ WithinCartBounds(new)
             /\ carts' = Upsert(carts, uid, new)
             /\ Reply("add_item", t, 200, "Item added to cart successfully")
             /\ UNCHANGED <<users, admins, products, orders, tokens, now, calls, ids>>

(* The 404 is raised inside "try": "except Exception" answers 500 *)
remove_item(t, product_id) ==
    LET auth == CurrentUser(t) IN
    IF auth.status # 200 THEN Deny("remove_item", t, auth.status)
    ELSE LET uid == auth.doc[1].id IN
         IF ~HasCart(carts, uid)
         THEN /\ Reply("remove_item", t, 500, "404: Cart not found")
              /\ UNCHANGED <<store, tokens, now, calls, ids>>
         ELSE IF HasLine(carts[uid], product_id)
         THEN /\ carts' = Upsert(carts, uid, remove_lines(carts[uid], product_id))
              /\ Reply("remove_item", t, 200, "Item remove from cart successfully")
              /\ UNCHANGED <<users, admins, products, orders, tokens, now, calls, ids>>
         ELSE /\ Reply("remove_item", t, 200, "Item not found in Cart")
              /\ UNCHANGED <<store, tokens, now, calls, ids>>

delete_cart(t) ==
    LET auth == CurrentUser(t) IN
    IF auth.status # 200 THEN Deny("delete_cart", t, auth.status)
    ELSE LET uid == auth.doc[1].id IN
         IF ~HasCart(carts, uid)
         THEN /\ Reply("delete_cart", t, 500, "404: Cart not Found")
              /\ UNCHANGED <<store, tokens, now, calls, ids>>
         ELSE /\ carts' = DropCart(carts, uid)
              /\ Reply("delete_cart", t, 200, "All the items in the cart are now deleted")
              /\ UNCHANGED <<users, admins, products, orders, tokens, now, calls, ids>>

----------------------------------------------------------------------------
(* Orders: model.py Order, route/order_route.py *)

(* Order.add_products_from_cart: product_ids stays None without a cart *)
add_products_from_cart(cs, user_id) ==
    IF HasCart(cs, user_id) THEN Some(cs[user_id]) ELSE None

(* find_one({"id": ...}, {"_id": 0, "quantity": 0}) *)
ProductSnapshot(product) == [id |-> product.id, price |-> product.price]

(* Order.calculate_amount: the loop stops at the first line whose product  *)
(* is missing; the HTTPException raised there is caught and returned, so   *)
(* amount and all_product keep what the earlier lines added.               *)
RECURSIVE PriceLines(_, _, _, _, _)
PriceLines(items, i, amount, all_product, catalog) ==
    IF i > Len(items)
    THEN [amount |-> amount, all_product |-> all_product, invalid |-> FALSE]
    ELSE LET k == IndexById(catalog, items[i].product_id) IN
         IF k = 0
         THEN [amount |-> amount, all_product |-> all_product, invalid |-> TRUE]
         ELSE PriceLines(items, i + 1,
                         amount + catalog[k].price * items[i].quantity,
                         Append(all_product, ProductSnapshot(catalog[k])),
                         catalog)

calculate_amount(product_ids, catalog) ==
    IF product_ids # None /\ Len(product_ids[1]) > 0
    THEN PriceLines(product_ids[1], 1, 0, <<>>, catalog)
    ELSE [amount |-> 0, all_product |-> <<>>, invalid |-> FALSE]

(* NewOrder with "order.is_placed = True" left out *)
NewOrder_unplaced(id, user_id, cs, catalog) ==
    LET product_ids == add_products_from_cart(cs, user_id)
        priced == calculate_amount(product_ids, catalog)
    IN  [id |-> id, user_id |-> user_id, product_ids |-> product_ids,
         all_product |-> priced.all_product, amount |-> priced.amount,
         is_placed |-> FALSE]

(* create_order, lines 32 to 41: the order built before the insert.  The   *)
(* value calculate_amount returns is dropped.                              *)
NewOrder(id, user_id, cs, catalog) ==
    LET product_ids == add_products_from_cart(cs, user_id)
        priced == calculate_amount(product_ids, catalog)
    IN  [id |-> id, user_id |-> user_id, product_ids |-> product_ids,
         all_product |-> priced.all_product, amount |-> priced.amount,
         is_placed |-> TRUE]

(* create_order without the look-up of the user id (lines 35 and 36) *)
create_order_any_principal(t) ==
    LET auth == CurrentUser(t) IN
    IF auth.status # 200 THEN Deny("create_order", t, auth.status)
    ELSE LET uid == auth.doc[1].id IN
         /\ ids.order < MaxOrders
         /\ orders' = Append(orders,
                          NewOrder(<<"order", ids.order + 1>>, uid, carts, products))
         /\ ids' = [ids EXCEPT !.order = @ + 1]
         /\ carts' = IF HasCart(carts, uid) THEN DropCart(carts, uid) ELSE carts
         /\ Reply("create_order", t, 200, "Order Places Successfully")
         /\ UNCHANGED <<users, admins, products, tokens, now, calls>>

(* create_order: the 400 for an unknown user id is raised inside "try"     *)
(* and answered as a 500.                                                  *)
create_order(t) ==
    LET auth == CurrentUser(t) IN
    IF auth.status # 200 THEN Deny("create_order", t, auth.status)
    ELSE LET uid == auth.doc[1].id IN
         IF IndexById(users, uid) # 0
         THEN /\ ids.order < MaxOrders
              /\ orders' = Append(orders,
                               NewOrder(<<"order", ids.order + 1>>, uid, carts, products))
              /\ ids' = [ids EXCEPT !.order = @ + 1]
              /\ carts' = IF HasCart(carts, uid) THEN DropCart(carts, uid) ELSE carts
              /\ Reply("create_order", t, 200, "Order Places Successfully")
              /\ UNCHANGED <<users, admins, products, tokens, now, calls>>
         ELSE /\ Reply("create_order", t, 500, "400: Invalid User Id given")
              /\ UNCHANGED <<store, tokens, now, calls, ids>>

(* create_order, with an insert that is undone when delete_cart raises *)
create_order_delete_cart_raises_undone(t) ==
    LET auth == CurrentUser(t) IN
    /\ auth.status = 200
    /\ IndexById(users, auth.doc[1].id) # 0
    /\ Reply("create_order", t, 500, "500: storage error")
    /\ UNCHANGED <<store, tokens, now, calls, ids>>

(* create_order when a storage call of Order.delete_cart raises: the order *)
(* is already inserted (line 43), delete_cart wraps the exception in an    *)
(* HTTPException(500) and the handler's "except Exception" wraps that one  *)
(* again.  The cart is still stored.                                       *)
create_order_delete_cart_raises(t) ==
    LET auth == CurrentUser(t) IN
    /\ auth.status = 200
    /\ IndexById(users, auth.doc[1].id) # 0
    /\ ids.order < MaxOrders
    /\ orders' = Append(orders, NewOrder(<<"order", ids.order + 1>>,
                                         auth.doc[1].id, carts, products))
    /\ ids' = [ids EXCEPT !.order = @ + 1]
    /\ Reply("create_order", t, 500, "500: storage error")
    /\ UNCHANGED <<users, admins, products, carts, tokens, now, calls>>

(* limit(page_size) without the skip *)
PageOf_unskipped(col, page_no, page_size) ==
    SubSeq(col, 1, IF page_size < Len(col) THEN page_size ELSE Len(col))

(* skip((page_no - 1) * page_size).limit(page_size) *)
PageOf(col, page_no, page_size) ==
    LET skip_size == (page_no - 1) * page_size
        last == IF skip_size + page_size < Len(col) THEN skip_size + page_size
                ELSE Len(col)
    IN  SubSeq(col, skip_size + 1, last)

(* find without the user_id filter *)
OwnedBy_anyone(user_id, o) == TRUE

OwnedBy(user_id, o) == o.user_id = user_id

OrdersOf(col, user_id) ==
    LET Mine(o) == OwnedBy(user_id, o) IN SelectSeq(col, Mine)

(* The response dict of a listing; count_documents is the length of the   *)
(* filtered collection.                                                    *)
Listing(page_no, page_size, total, page) ==
    [Page_No |-> page_no, Page_Size |-> page_size, Total |-> total, Orders |-> page]

get_all_orders(t, page_no, page_size) ==
    LET auth == CurrentAdmin(t) IN
    IF auth.status # 200 THEN Deny("get_all_orders", t, auth.status)
    ELSE /\ IF Len(PageOf(orders, page_no, page_size)) = 0
            THEN Reply("get_all_orders", t, 200,
                       "No More Orders Left in the Order Collection")
            ELSE ReplyListing("get_all_orders", t,
                              Listing(page_no, page_size, Len(orders),
                                      PageOf(orders, page_no, page_size)))
         /\ UNCHANGED <<store, tokens, now, calls, ids>>

get_user_orders(t, page_no, page_size) ==
    LET auth == CurrentUser(t) IN
    IF auth.status # 200 THEN Deny("get_user_orders", t, auth.status)
    ELSE /\ LET mine == OrdersOf(orders, auth.doc[1].id) IN
            IF Len(PageOf(mine, page_no, page_size)) = 0
            THEN Reply("get_user_orders", t, 200,
                       "No More Orders Left in the Order Collection")
            ELSE ReplyListing("get_user_orders", t,
                              Listing(page_no, page_size, Len(mine),
                                      PageOf(mine, page_no, page_size)))
         /\ UNCHANGED <<store, tokens, now, calls, ids>>

delete_order(t, order_id) ==
    LET auth == CurrentAdmin(t)
        i == IndexById(orders, order_id)
    IN  IF auth.status # 200 THEN Deny("delete_order", t, auth.status)
        ELSE IF i # 0
        THEN /\ orders' = RemoveAt(orders, i)
             /\ Reply("delete_order", t, 200, "deleted")
             /\ UNCHANGED <<users, admins, products, carts, tokens, now, calls, ids>>
        ELSE /\ Reply("delete_order", t, 200, "does not exist")
             /\ UNCHANGED <<store, tokens, now, calls, ids>>

----------------------------------------------------------------------------
(* The racing handlers, one action per storage round trip.  calls holds    *)
(* the requests that passed their dependency, in order of arrival, each    *)
(* with what it read (its local variables) and, once answered, its status. *)

Call(op, t, user_id, pc, status) ==
    [op |-> op, token |-> t, user_id |-> user_id, pc |-> pc, status |-> status]

CartCall(op, t, user_id, product_id, quantity, cart, pc, status) ==
    [op |-> op, token |-> t, user_id |-> user_id, product_id |-> product_id,
     quantity |-> quantity, cart |-> cart, pc |-> pc, status |-> status]

Arrive(c) == Len(calls) < MaxCalls /\ calls' = Append(calls, c)
Finish(i, status) == calls' = [calls EXCEPT ![i].pc = "done", ![i].status = status]

(* cart_col.find_one({"user_id": ...}) *)
FoundCart(cs, user_id) == IF HasCart(cs, user_id) THEN Some(cs[user_id]) ELSE None

(* The cart written back with the cart document re-read at write time *)
CartToWrite_reread(c, cs) ==
    IF c.op = "add_item"
    THEN add_items(IF HasCart(cs, c.user_id) THEN cs[c.user_id] ELSE <<>>,
                   c.product_id, c.quantity)
    ELSE remove_lines(IF HasCart(cs, c.user_id) THEN cs[c.user_id] ELSE <<>>,
                      c.product_id)

(* The Cart object a request holds after cart.add_items / cart.remove_item: *)
(* built from the document the request read, whatever is stored by now.     *)
CartToWrite(c, cs) ==
    IF c.op = "add_item"
    THEN add_items(IF c.cart = None THEN <<>> ELSE c.cart[1], c.product_id, c.quantity)
    ELSE remove_lines(c.cart[1], c.product_id)

(* A write that is dropped when the stored cart is not the one read *)
WriteBack_compare(cs, c) ==
    IF FoundCart(cs, c.user_id) = c.cart
    THEN Upsert(cs, c.user_id, CartToWrite(c, cs))
    ELSE cs

(* update_one({"user_id": ...}, {"$set": cart.dict()}, upsert=True) *)
WriteBack(cs, c) == Upsert(cs, c.user_id, CartToWrite(c, cs))

(* add_item up to and including find_one *)
add_item_find(t, product_id, quantity) ==
    LET auth == CurrentUser(t) IN
    IF auth.status # 200 THEN Deny("add_item", t, auth.status)
    ELSE /\ Arrive(CartCall("add_item", t, auth.doc[1].id, product_id, quantity,
                            FoundCart(carts, auth.doc[1].id), "found", 0))
         /\ UNCHANGED <<store, tokens, now, ids, resp>>

(* add_item from cart.add_items to the return *)
add_item_update(i) ==
    /\ calls[i].op = "add_item" /\ calls[i].pc = "found"
    /\ WithinCartBounds(CartToWrite(calls[i], carts))
    /\ carts' = WriteBack(carts, calls[i])
    /\ Finish(i, 200)
    /\ Reply("add_item", calls[i].token, 200, "Item added to cart successfully")
    /\ UNCHANGED <<users, admins, products, orders, tokens, now, ids>>

(* remove_item up to and including the membership test *)
remove_item_find(t, product_id) ==
    LET auth == CurrentUser(t) IN
    IF auth.status # 200 THEN Deny("remove_item", t, auth.status)
    ELSE LET uid == auth.doc[1].id
             cart == FoundCart(carts, uid)
         IN  IF cart = None
             THEN /\ Arrive(CartCall("remove_item", t, uid, product_id, 0, cart, "done", 500))
                  /\ Reply("remove_item", t, 500, "404: Cart not found")
                  /\ UNCHANGED <<store, tokens, now, ids>>
             ELSE IF ~HasLine(cart[1], product_id)
             THEN /\ Arrive(CartCall("remove_item", t, uid, product_id, 0, cart, "done", 200))
                  /\ Reply("remove_item", t, 200, "Item not found in Cart")
                  /\ UNCHANGED <<store, tokens, now, ids>>
             ELSE /\ Arrive(CartCall("remove_item", t, uid, product_id, 0, cart, "found", 0))
                  /\ UNCHANGED <<store, tokens, now, ids, resp>>

(* remove_item from cart.remove_item to the return *)
remove_item_update(i) ==
    /\ calls[i].op = "remove_item" /\ calls[i].pc = "found"
    /\ carts' = WriteBack(carts, calls[i])
    /\ Finish(i, 200)
    /\ Reply("remove_item", calls[i].token, 200, "Item remove from cart successfully")
    /\ UNCHANGED <<users, admins, products, orders, tokens, now, ids>>

(* create_order up to and including insert_one *)
create_order_insert(t) ==
    LET auth == CurrentUser(t) IN
    IF auth.status # 200 THEN Deny("create_order", t, auth.status)
    ELSE LET uid == auth.doc[1].id IN
         IF IndexById(users, uid) # 0
         THEN /\ ids.order < MaxOrders
              /\ orders' = Append(orders,
                               NewOrder(<<"order", ids.order + 1>>, uid, carts, products))
              /\ ids' = [ids EXCEPT !.order = @ + 1]
              /\ Arrive(Call("create_order", t, uid, "inserted", 0)
                           @@ [order_id |-> <<"order", ids.order + 1>>])
              /\ UNCHANGED <<users, admins, products, carts, tokens, now, resp>>
         ELSE /\ Arrive(Call("create_order", t, uid, "done", 500))
              /\ Reply("create_order", t, 500, "400: Invalid User Id given")
              /\ UNCHANGED <<store, tokens, now, ids>>

(* create_order from new_order.delete_cart to the return *)
create_order_delete_cart(i) ==
    /\ calls[i].op = "create_order" /\ calls[i].pc = "inserted"
    /\ carts' = IF HasCart(carts, calls[i].user_id)
                THEN DropCart(carts, calls[i].user_id) ELSE carts
    /\ Finish(i, 200)
    /\ Reply("create_order", calls[i].token, 200, "Order Places Successfully")
    /\ UNCHANGED <<users, admins, products, orders, tokens, now, ids>>

SignupCall(op, email, password, address, is_admin, pc, status) ==
    [op |-> op, token |-> Garbage, email |-> email, password |-> password,
     address |-> address, is_admin |-> is_admin, pc |-> pc, status |-> status]

(* add_user up to and including the existence check *)
add_user_find(email, password, address, is_admin) ==
    IF IndexByEmail(users, email) # 0
    THEN /\ Arrive(SignupCall("add_user", email, password, address, is_admin, "done", 200))
         /\ Reply("add_user", Garbage, 200, "already exist")
         /\ UNCHANGED <<store, tokens, now, ids>>
    ELSE /\ Arrive(SignupCall("add_user", email, password, address, is_admin, "checked", 0))
         /\ UNCHANGED <<store, tokens, now, ids, resp>>

(* An insert refused when the email is stored by now, as under a unique   *)
(* index on email                                                          *)
add_user_insert_unique(i) ==
    /\ calls[i].op = "add_user" /\ calls[i].pc = "checked"
    /\ IF IndexByEmail(users, calls[i].email) # 0
       THEN /\ Finish(i, 500)
            /\ Reply("add_user", Garbage, 500, "duplicate key")
            /\ UNCHANGED <<store, tokens, now, ids>>
       ELSE /\ ids.user < MaxUsers
            /\ users' = Append(users, Principal(<<"user", ids.user + 1>>, calls[i].email,
                                  calls[i].password, calls[i].address, calls[i].is_admin))
            /\ ids' = [ids EXCEPT !.user = @ + 1]
            /\ Finish(i, 200)
            /\ Reply("add_user", Garbage, 200, "User added")
            /\ UNCHANGED <<admins, products, carts, orders, tokens, now>>

(* add_user from insert_one to the return *)
add_user_insert(i) ==
    /\ calls[i].op = "add_user" /\ calls[i].pc = "checked"
    /\ ids.user < MaxUsers
    /\ users' = Append(users, Principal(<<"user", ids.user + 1>>, calls[i].email,
                          calls[i].password, calls[i].address, calls[i].is_admin))
    /\ ids' = [ids EXCEPT !.user = @ + 1]
    /\ Finish(i, 200)
    /\ Reply("add_user", Garbage, 200, "User added")
    /\ UNCHANGED <<admins, products, carts, orders, tokens, now>>

(* add_admin up to and including the existence check *)
add_admin_find(email, password, address, is_admin) ==
    IF IndexByEmail(admins, email) # 0
    THEN /\ Arrive(SignupCall("add_admin", email, password, address, is_admin, "done", 200))
         /\ Reply("add_admin", Garbage, 200, "already exist")
         /\ UNCHANGED <<store, tokens, now, ids>>
    ELSE /\ Arrive(SignupCall("add_admin", email, password, address, is_admin, "checked", 0))
         /\ UNCHANGED <<store, tokens, now, ids, resp>>

(* add_admin from insert_one to the return *)
add_admin_insert(i) ==
    /\ calls[i].op = "add_admin" /\ calls[i].pc = "checked"
    /\ ids.admin < MaxAdmins
    /\ admins' = Append(admins, Principal(<<"admin", ids.admin + 1>>, calls[i].email,
                           calls[i].password, calls[i].address, calls[i].is_admin))
    /\ ids' = [ids EXCEPT !.admin = @ + 1]
    /\ Finish(i, 200)
    /\ Reply("add_admin", Garbage, 200, "User added")
    /\ UNCHANGED <<users, products, carts, orders, tokens, now>>

----------------------------------------------------------------------------
(* Requests during which a storage call raises.  The handler's "except     *)
(* Exception" builds HTTPException(500, detail=str(e)): add_user and        *)
(* add_item raise it, get_items returns it, and a returned object is       *)
(* serialised as the body of a 200 response.                               *)

add_user_storage_raises ==
    /\ Reply("add_user", Garbage, 500, "storage error")
    /\ UNCHANGED <<store, tokens, now, calls, ids>>

add_item_storage_raises(t) ==
    LET auth == CurrentUser(t) IN
    /\ auth.status = 200
    /\ Reply("add_item", t, 500, "storage error")
    /\ UNCHANGED <<store, tokens, now, calls, ids>>

get_items_storage_raises(t) ==
    LET auth == CurrentUser(t) IN
    /\ auth.status = 200
    /\ Reply("get_items", t, 200, "HTTPException(500, storage error)")
    /\ UNCHANGED <<store, tokens, now, calls, ids>>

----------------------------------------------------------------------------
(* Steps that are not requests *)

(* create_access_token called with any claims and any ttl *)
Roles == {"user", "admin", "guest"}
TTLs == {None, Some(0), Some(1), Some(2)}

IssueToken(email, role, ttl) ==
    /\ Hand(create_access_token(email, role, ttl, now))
    /\ resp' = Idle
    /\ UNCHANGED <<store, now, calls, ids>>

(* A minute passes *)
Tick ==
    /\ now < MaxTime
    /\ now' = now + 1
    /\ resp' = Idle
    /\ UNCHANGED <<store, tokens, ids, calls>>

----------------------------------------------------------------------------
(* The HTTP surface, one request at a time *)

AnyProductId == {<<"product", n>> : n \in 0..MaxProducts}
AnyOrderId == {<<"order", n>> : n \in 0..MaxOrders}
UserTokens == {t \in tokens : t.role = "user"}

AddUser == \E e \in Emails, p \in RegPasswords, a \in RegAddresses, adm \in BOOLEAN :
               add_user(e, p, a, adm)
AddAdmin == \E e \in Emails, p \in RegPasswords, a \in RegAddresses, adm \in BOOLEAN :
                add_admin(e, p, a, adm)
Login == \E e \in Emails, p \in Passwords : login(e, p)
UpdateUserAddress == \E t \in Presentable, e \in Emails, a \in Addresses :
                         update_user_address(t, e, a)
DeleteYourAccount == \E t \in Presentable : delete_your_account(t)
UpdateAdminAddress == \E t \in Presentable, a \in Addresses : update_admin_address(t, a)
DeleteAdmin == \E t \in Presentable : delete_admin(t)
DeleteUser == \E t \in Presentable, e \in Emails : delete_user(t, e)
AddProduct == \E t \in Presentable, p \in Prices, q \in Stock : add_product(t, p, q)
UpdateProductPrice == \E t \in Presentable, id \in AnyProductId, p \in Prices :
                          update_product_price(t, id, p)
UpdateProductQuantity == \E t \in Presentable, id \in AnyProductId, q \in NewStock :
                             update_product_quantity(t, id, q)
DeleteProduct == \E t \in Presentable, id \in AnyProductId : delete_product(t, id)
GetItems == \E t \in Presentable : get_items(t)
AddItem == \E t \in Presentable, id \in AnyProductId, q \in Qtys : add_item(t, id, q)
RemoveItem == \E t \in Presentable, id \in AnyProductId : remove_item(t, id)
DeleteCart == \E t \in Presentable : delete_cart(t)
CreateOrder == \E t \in Presentable : create_order(t)
GetAllOrders == \E t \in Presentable, n \in Pages, sz \in PageSizes : get_all_orders(t, n, sz)
GetUserOrders == \E t \in Presentable, n \in Pages, sz \in PageSizes :
                     get_user_orders(t, n, sz)
DeleteOrder == \E t \in Presentable, id \in AnyOrderId : delete_order(t, id)

(* The whole surface.  Its state space is the product of every slice      *)
(* below; the properties are checked on the slices, each of which is a    *)
(* set of behaviours of Spec restricted to some requests and inputs.      *)
Next ==
    \/ AddUser \/ AddAdmin \/ Login
    \/ UpdateUserAddress \/ DeleteYourAccount
    \/ UpdateAdminAddress \/ DeleteAdmin \/ DeleteUser
    \/ AddProduct \/ UpdateProductPrice \/ UpdateProductQuantity \/ DeleteProduct
    \/ GetItems \/ AddItem \/ RemoveItem \/ DeleteCart
    \/ CreateOrder \/ GetAllOrders \/ GetUserOrders \/ DeleteOrder
    \/ Tick

Spec == Init /\ [][Next]_vars

----------------------------------------------------------------------------
(* Slice: one user and the cart of that user *)

CartAddUser == add_user("a@x", "pw", "addr1", FALSE)
CartLogin == login("a@x", "pw")

NextCart ==
    \/ CartAddUser \/ CartLogin
    \/ GetItems \/ AddItem \/ RemoveItem \/ DeleteCart

SpecCart == Init /\ [][NextCart]_vars

----------------------------------------------------------------------------
(* Slice: the order workflow.  One user (a@x), one admin (b@x) who keeps   *)
(* the catalog; carts are filled with user tokens, orders are requested    *)
(* with any token.                                                         *)

OrderAddUser == add_user("a@x", "pw", "addr1", FALSE)
OrderAddAdmin == add_admin("b@x", "pw", "addr1", TRUE)
OrderLogin == \E e \in Emails : login(e, "pw")
OrderAddItem == \E t \in UserTokens, id \in AnyProductId, q \in Qtys : add_item(t, id, q)
OrderRemoveItem == \E t \in UserTokens, id \in AnyProductId : remove_item(t, id)

(* The slices of the order workflow place one order *)
FirstCreateOrder == ids.order = 0 /\ CreateOrder

NextOrder ==
    \/ OrderAddUser \/ OrderAddAdmin \/ OrderLogin
    \/ AddProduct \/ UpdateProductPrice \/ DeleteProduct
    \/ OrderAddItem \/ OrderRemoveItem
    \/ FirstCreateOrder

SpecOrder == Init /\ [][NextOrder]_vars

----------------------------------------------------------------------------
(* Slice: checkout.  As the order workflow, with cart lines of the first   *)
(* product only.                                                           *)

FirstProduct == {<<"product", 1>>}
CheckoutAddItem == \E t \in UserTokens, id \in FirstProduct, q \in Qtys : add_item(t, id, q)
CheckoutRemoveItem == \E t \in UserTokens, id \in FirstProduct : remove_item(t, id)

NextCheckout ==
    \/ OrderAddUser \/ OrderAddAdmin \/ OrderLogin
    \/ AddProduct \/ DeleteProduct
    \/ CheckoutAddItem \/ CheckoutRemoveItem
    \/ FirstCreateOrder

SpecCheckout == Init /\ [][NextCheckout]_vars

----------------------------------------------------------------------------
(* Slice: placing orders.  One user (a@x) and one admin (b@x), no catalog; *)
(* the cart deletion that ends create_order may fail.                      *)

CreateOrderDeleteCartRaises == \E t \in Presentable : create_order_delete_cart_raises(t)

NextPlace ==
    \/ OrderAddUser \/ OrderAddAdmin \/ OrderLogin
    \/ CheckoutAddItem \/ CheckoutRemoveItem
    \/ CreateOrder \/ CreateOrderDeleteCartRaises

SpecPlace == Init /\ [][NextPlace]_vars

----------------------------------------------------------------------------
(* Slice: the admin-only operations.  A user (a@x) and an admin (b@x);     *)
(* orders come from users without carts.                                   *)

AdminAddProduct == \E t \in Presentable : add_product(t, 50, 5)
AdminUpdatePrice == \E t \in Presentable, id \in AnyProductId : update_product_price(t, id, 100)
AdminUpdateQuantity == \E t \in Presentable, id \in AnyProductId :
                           update_product_quantity(t, id, 6)
AdminUpdateAddress == \E t \in Presentable : update_admin_address(t, "addr2")
AdminGetAllOrders == \E t \in Presentable : get_all_orders(t, 1, 50)

NextAdmin ==
    \/ OrderAddUser \/ OrderAddAdmin \/ OrderLogin
    \/ AdminAddProduct \/ AdminUpdatePrice \/ AdminUpdateQuantity \/ DeleteProduct
    \/ AdminUpdateAddress \/ DeleteAdmin \/ DeleteUser
    \/ AdminGetAllOrders \/ DeleteOrder
    \/ FirstCreateOrder

SpecAdmin == Init /\ [][NextAdmin]_vars

----------------------------------------------------------------------------
(* Slice: accounts and the authorization resolver.  Accounts come and go,  *)
(* tokens are made by login and by create_access_token with any claims,    *)
(* GET /cart/items stands for a route that depends on get_current_user.    *)

AuthAddUser == \E e \in Emails : add_user(e, "pw", "addr1", FALSE)
AuthAddAdmin == \E e \in Emails : add_admin(e, "pw", "addr1", TRUE)
AuthIssue == \E e \in Emails \cup {Absent}, r \in Roles \cup {Absent} : IssueToken(e, r, None)

NextAuth ==
    \/ AuthAddUser \/ AuthAddAdmin \/ Login \/ AuthIssue
    \/ DeleteYourAccount \/ DeleteAdmin \/ DeleteUser
    \/ GetItems

SpecAuth == Init /\ [][NextAuth]_vars

----------------------------------------------------------------------------
(* Slice: the life of one token.  One user, one token made with any ttl,   *)
(* the clock, and GET /cart/items as the route that validates the token.   *)

TokenAddUser == add_user("a@x", "pw", "addr1", FALSE)
TokenIssue == tokens = {} /\ \E ttl \in TTLs : IssueToken("a@x", "user", ttl)

NextToken == TokenAddUser \/ TokenIssue \/ Tick \/ GetItems

SpecToken == Init /\ [][NextToken]_vars

----------------------------------------------------------------------------
(* Slice: one user whose cart requests run concurrently *)

AddItemFind == \E t \in Presentable, id \in AnyProductId, q \in Qtys : add_item_find(t, id, q)
AddItemUpdate == \E i \in 1..Len(calls) : add_item_update(i)
RemoveItemFind == \E t \in Presentable, id \in AnyProductId : remove_item_find(t, id)
RemoveItemUpdate == \E i \in 1..Len(calls) : remove_item_update(i)

NextCartRace ==
    \/ CartAddUser \/ CartLogin
    \/ AddItemFind \/ AddItemUpdate
    \/ RemoveItemFind \/ RemoveItemUpdate

SpecCartRace == Init /\ [][NextCartRace]_vars

----------------------------------------------------------------------------
(* Slice: one user whose add_item and create_order requests run            *)
(* concurrently.  The cart is first filled by whole add_item requests,     *)
(* none of which is sent once an order is inserted.                        *)

SeedCart == ids.order = 0 /\ Len(calls) = 0 /\ CheckoutAddItem
CreateOrderInsert == \E t \in Presentable : create_order_insert(t)
CreateOrderDeleteCart == \E i \in 1..Len(calls) : create_order_delete_cart(i)

NextOrderRace ==
    \/ CartAddUser \/ CartLogin \/ SeedCart
    \/ AddItemFind \/ AddItemUpdate
    \/ CreateOrderInsert \/ CreateOrderDeleteCart

SpecOrderRace == Init /\ [][NextOrderRace]_vars

----------------------------------------------------------------------------
(* Slice: one user and the cart of that user, with a storage that may      *)
(* raise during a request.                                                 *)

AddItemStorageRaises == \E t \in Presentable : add_item_storage_raises(t)
GetItemsStorageRaises == \E t \in Presentable : get_items_storage_raises(t)

NextStorage ==
    \/ CartAddUser \/ CartLogin \/ GetItems \/ AddItem
    \/ add_user_storage_raises \/ AddItemStorageRaises \/ GetItemsStorageRaises

SpecStorage == Init /\ [][NextStorage]_vars

----------------------------------------------------------------------------
(* Slice: what later requests do to stored orders.  User a@x shops and     *)
(* places orders while admin b@x changes the catalog and deletes orders,   *)
(* and either of them deletes the user's account.                          *)

AdminTokens == {t \in tokens : t.role = "admin"}
FrameAddUser == ids.user = 0 /\ OrderAddUser
FrameAddProduct == ids.product = 0 /\ \E t \in AdminTokens : add_product(t, 50, 5)
FrameUpdatePrice ==
    \E t \in AdminTokens, id \in AnyProductId : update_product_price(t, id, 100)
FrameUpdateQuantity ==
    \E t \in AdminTokens, id \in AnyProductId : update_product_quantity(t, id, 6)
FrameDeleteProduct == \E t \in AdminTokens, id \in AnyProductId : delete_product(t, id)
FrameAddItem ==
    /\ \A i \in 1..Len(users) : ~HasCart(carts, users[i].id)
    /\ \E t \in UserTokens : add_item(t, <<"product", 1>>, 1)
FrameDeleteCart == \E t \in UserTokens : delete_cart(t)
FrameDeleteYourAccount == \E t \in UserTokens : delete_your_account(t)
FrameDeleteUser == \E t \in AdminTokens, e \in Emails : delete_user(t, e)
FrameUpdateUserAddress ==
    \E t \in UserTokens, e \in Emails : update_user_address(t, e, "addr2")
FrameDeleteOrder == \E t \in AdminTokens, id \in AnyOrderId : delete_order(t, id)

NextFrame ==
    \/ FrameAddUser \/ OrderAddAdmin \/ OrderLogin
    \/ FrameAddProduct \/ FrameUpdatePrice \/ FrameUpdateQuantity \/ FrameDeleteProduct
    \/ FrameAddItem \/ CheckoutRemoveItem \/ FrameDeleteCart
    \/ CreateOrder \/ FrameDeleteYourAccount \/ FrameDeleteOrder
    \/ FrameDeleteUser \/ FrameUpdateUserAddress

SpecFrame == Init /\ [][NextFrame]_vars

----------------------------------------------------------------------------
(* Slice: an email that comes back.  User a@x registers, logs in, shops,   *)
(* orders, deletes the account and registers again with the same email;    *)
(* admin b@x logs in too.  Logins record the id they verified.             *)

ReturnLogin == \E e \in Emails : login_recording(e, "pw", TRUE)
ReturnGetItems == \E t \in tokens : get_items(t)

NextReturn ==
    \/ OrderAddUser \/ OrderAddAdmin \/ ReturnLogin
    \/ FrameAddProduct \/ FrameAddItem \/ ReturnGetItems
    \/ CreateOrder \/ FrameDeleteYourAccount

SpecReturn == Init /\ [][NextReturn]_vars

----------------------------------------------------------------------------
(* Slice: registration bodies that set is_admin.  Users register with      *)
(* either value of is_admin, log in and call admin-only routes.            *)

EscalationAddUser == \E e \in Emails, adm \in BOOLEAN : add_user(e, "pw", "addr1", adm)

NextEscalation ==
    \/ EscalationAddUser \/ OrderLogin
    \/ AdminAddProduct \/ DeleteProduct \/ DeleteUser

SpecEscalation == Init /\ [][NextEscalation]_vars

----------------------------------------------------------------------------
(* Slice: add_item with any integer quantity.  User a@x adds the product   *)
(* with a negative, zero or positive quantity and places one order.        *)

AnyQtys == {-1, 0, 1}
QuantityAddItem == \E t \in UserTokens, q \in AnyQtys : add_item(t, <<"product", 1>>, q)

NextQuantity ==
    \/ OrderAddUser \/ OrderAddAdmin \/ OrderLogin
    \/ FrameAddProduct \/ QuantityAddItem \/ FirstCreateOrder

SpecQuantity == Init /\ [][NextQuantity]_vars

----------------------------------------------------------------------------
(* Slice: user accounts.  Users register, log in, change addresses and     *)
(* leave; one admin (b@x) logs in too.                                     *)

NextAccount ==
    \/ AuthAddUser \/ OrderAddAdmin \/ OrderLogin
    \/ UpdateUserAddress \/ DeleteYourAccount

SpecAccount == Init /\ [][NextAccount]_vars

----------------------------------------------------------------------------
(* Slice: the order listings.  Two users place orders without carts, one   *)
(* admin (b@x) lists all orders, every user lists their own.               *)

NextListing ==
    \/ AuthAddUser \/ OrderAddAdmin \/ OrderLogin
    \/ CreateOrder \/ GetUserOrders \/ GetAllOrders

SpecListing == Init /\ [][NextListing]_vars

----------------------------------------------------------------------------
(* Slice: concurrent registrations *)

AddUserFind == \E e \in Emails, adm \in BOOLEAN : add_user_find(e, "pw", "addr1", adm)
AddUserInsert == \E i \in 1..Len(calls) : add_user_insert(i)
AddAdminFind == \E e \in Emails : add_admin_find(e, "pw", "addr1", TRUE)
AddAdminInsert == \E i \in 1..Len(calls) : add_admin_insert(i)

NextSignupRace == AddUserFind \/ AddUserInsert \/ AddAdminFind \/ AddAdminInsert

SpecSignupRace == Init /\ [][NextSignupRace]_vars

----------------------------------------------------------------------------
(* Properties.  Every request writes resp, so in a step resp' is the       *)
(* response of the request that made the step and the unprimed variables   *)
(* are the state the request ran in.                                       *)

(* The principal a token resolves to in the current state *)
ResolvesTo(t) == CurrentUser(t).doc[1]
Authenticated(t) == CurrentUser(t).status = 200

LinesOf(o) == IF o.product_ids = None THEN <<>> ELSE o.product_ids[1]

LineTotal(catalog, line) ==
    LET k == IndexById(catalog, line.product_id) IN
    IF k = 0 THEN 0 ELSE catalog[k].price * line.quantity

RECURSIVE SumOfLines(_, _)
SumOfLines(items, catalog) ==
    IF Len(items) = 0 THEN 0
    ELSE LineTotal(catalog, Head(items)) + SumOfLines(Tail(items), catalog)

HasMissingLine(items, catalog) ==
    \E i \in 1..Len(items) : IndexById(catalog, items[i].product_id) = 0

OrderInserted == Len(orders') = Len(orders) + 1 /\ SubSeq(orders', 1, Len(orders)) = orders
InsertedOrder == orders'[Len(orders')]

(* C1: whenever an order is persisted, its amount is the sum over all the  *)
(* lines of its product_ids snapshot of the price the product has in the   *)
(* catalog at that moment times the quantity of the line (a line whose     *)
(* product is not in the catalog counting for nothing).                    *)
C1_AmountIsSumOverAllLines ==
    [][OrderInserted =>
         InsertedOrder.amount = SumOfLines(LinesOf(InsertedOrder), products)]_vars

(* C2: a create_order request of an existing user whose cart has a line    *)
(* with a product that is not in the catalog persists no order and is      *)
(* not answered with success.                                              *)
C2_InvalidProductAbandonsOrder ==
    [][(/\ resp'.op = "create_order"
        /\ Authenticated(resp'.token)
        /\ IndexById(users, ResolvesTo(resp'.token).id) # 0
        /\ HasCart(carts, ResolvesTo(resp'.token).id)
        /\ HasMissingLine(carts[ResolvesTo(resp'.token).id], products))
       => (orders' = orders /\ resp'.status # 200)]_vars

(* C3: a create_order request whose resolved principal has an id that no   *)
(* document of the user collection has is answered 400.                    *)
C3_UnknownUserIs400 ==
    [][(/\ resp'.op = "create_order"
        /\ Authenticated(resp'.token)
        /\ IndexById(users, ResolvesTo(resp'.token).id) = 0)
       => resp'.status = 400]_vars

(* C4: a login whose email matches no user and no admin, or whose         *)
(* password verifies against neither stored hash, is answered 401 and      *)
(* hands out no token.                                                     *)
BadCredentials(email, password) ==
    LET user == get_user(users, email)
        admin == get_admin(admins, email)
    IN  /\ user = None \/ ~Verify(password, user[1].password)
        /\ admin = None \/ ~Verify(password, admin[1].password)

C4_BadCredentialsAre401 ==
    [][\A e \in Emails, p \in Passwords :
          (login(e, p) /\ BadCredentials(e, p))
          => (resp'.status = 401 /\ tokens' = tokens)]_vars

(* C5: a token made at time t0 with ttl T (T the default of 60 minutes     *)
(* when no ttl is given) is accepted at every time before t0 + T and       *)
(* refused at every time after t0 + T.                                     *)
ClaimedTTL(t) == IF t.ttl = None THEN EXPIRATION_DURATION ELSE t.ttl[1]

C5_ValidUntilIssuedPlusTTL ==
    [][(/\ resp'.op = "get_items"
        /\ resp'.token \in tokens
        /\ resp'.token.role = "user"
        /\ get_user(users, resp'.token.email) # None)
       => (/\ now < resp'.token.issued_at + ClaimedTTL(resp'.token)
                => resp'.status = 200
           /\ now > resp'.token.issued_at + ClaimedTTL(resp'.token)
                => resp'.status = 401)]_vars

(* C6: a request to a protected route with a signed, unexpired token       *)
(* carrying both claims is answered 401, and changes nothing, when the     *)
(* collection its role selects has no document with its email or when its  *)
(* role is neither "user" nor "admin".                                     *)
OpenOps == {"none", "add_user", "add_admin", "login"}

HasRecord(t) ==
    \/ t.role = "user" /\ \E i \in 1..Len(users) : users[i].email = t.email
    \/ t.role = "admin" /\ \E i \in 1..Len(admins) : admins[i].email = t.email

SignedUnexpired(t) == t.signed /\ now <= t.exp

C6_NoRecordIsUnauthorized ==
    [][(/\ resp'.op \notin OpenOps
        /\ SignedUnexpired(resp'.token)
        /\ resp'.token.email # Absent /\ resp'.token.role # Absent
        /\ ~HasRecord(resp'.token))
       => (resp'.status = 401 /\ UNCHANGED store)]_vars

C6_Witness ==
    /\ resp.op = "get_items" /\ resp.status = 401
    /\ resp.token \in tokens /\ SignedUnexpired(resp.token)
    /\ resp.token.role = "user" /\ resp.token.ttl = None
    /\ ids.user > 0 /\ ~HasRecord(resp.token)

(* C7: a request to a protected route with a signed, unexpired token whose *)
(* payload lacks the email claim or the role claim is answered 401.        *)
C7_MissingClaimIs401 ==
    [][(/\ resp'.op \notin OpenOps
        /\ SignedUnexpired(resp'.token)
        /\ resp'.token.email = Absent \/ resp'.token.role = Absent)
       => resp'.status = 401]_vars

(* C8: a request to an admin-only route whose token resolves to a stored   *)
(* principal that is not an admin is answered 403 and changes no           *)
(* collection.                                                             *)
AdminOnlyOps ==
    {"get_all_orders", "delete_order", "add_product", "update_product_price",
     "update_product_quantity", "delete_product", "update_admin_address",
     "delete_admin", "delete_user"}

LinesFor(items, product_id) == {i \in 1..Len(items) : items[i].product_id = product_id}

QuantityOf(items, product_id) ==
    IF LinesFor(items, product_id) = {} THEN 0
    ELSE items[CHOOSE i \in LinesFor(items, product_id) : TRUE].quantity

NoDuplicateLines(cs) ==
    \A u \in DOMAIN cs : \A i, j \in 1..Len(cs[u]) :
        i # j => cs[u][i].product_id # cs[u][j].product_id

CartBefore(t) == IF HasCart(carts, ResolvesTo(t).id) THEN carts[ResolvesTo(t).id] ELSE <<>>

C9_AddAccumulatesOneLine ==
    [][/\ NoDuplicateLines(carts')
       /\ \A t \in Presentable, p \in AnyProductId, q \in Qtys :
            (add_item(t, p, q) /\ Authenticated(t))
            => (/\ HasCart(carts', ResolvesTo(t).id)
                /\ Cardinality(LinesFor(carts'[ResolvesTo(t).id], p)) = 1
                /\ QuantityOf(carts'[ResolvesTo(t).id], p)
                      = QuantityOf(CartBefore(t), p) + q)]_vars

C9_Witness ==
    /\ resp.op = "add_item" /\ resp.status = 200
    /\ \E u \in DOMAIN carts :
          /\ Len(carts[u]) = 2
          /\ \E i \in 1..2 : carts[u][i].quantity = 3

(* C10: a create_order request of an existing user who has no cart, or a   *)
(* cart without lines, is answered with success and persists exactly one   *)
(* order, with amount 0, all_product empty and is_placed true.             *)
NoLines(cs, user_id) == ~HasCart(cs, user_id) \/ Len(cs[user_id]) = 0

C10_EmptyCartOrder ==
    [][(/\ resp'.op = "create_order"
        /\ Authenticated(resp'.token)
        /\ IndexById(users, ResolvesTo(resp'.token).id) # 0
        /\ NoLines(carts, ResolvesTo(resp'.token).id))
       => (/\ resp'.status = 200
           /\ OrderInserted
           /\ InsertedOrder.user_id = ResolvesTo(resp'.token).id
           /\ InsertedOrder.amount = 0
           /\ InsertedOrder.all_product = <<>>
           /\ InsertedOrder.is_placed = TRUE)]_vars

C10_Witness ==
    /\ resp.op = "create_order" /\ resp.status = 200
    /\ Len(products) > 0
    /\ Len(orders) > 0
    /\ orders[Len(orders)].product_ids = Some(<<>>)
    /\ orders[Len(orders)].amount = 0

(* C11: a create_order request answered with success has persisted exactly *)
(* one new order, of the caller and with is_placed true, and leaves the    *)
(* caller without a cart; every other create_order request is answered     *)
(* with an error status.                                                   *)
C11_SuccessMeansPlacedAndCartGone ==
    [][resp'.op = "create_order"
       => IF resp'.status = 200
          THEN /\ Authenticated(resp'.token)
               /\ OrderInserted
               /\ InsertedOrder.user_id = ResolvesTo(resp'.token).id
               /\ InsertedOrder.is_placed = TRUE
               /\ ~HasCart(carts', ResolvesTo(resp'.token).id)
          ELSE resp'.status >= 400]_vars

C11_Witness ==
    /\ resp.op = "create_order" /\ resp.status = 200
    /\ Authenticated(resp.token)
    /\ ~HasCart(carts, ResolvesTo(resp.token).id)
    /\ Len(orders) > 0
    /\ orders[Len(orders)].user_id = ResolvesTo(resp.token).id
    /\ Len(LinesOf(orders[Len(orders)])) > 0

(* C12: when the cart deletion of create_order fails with a storage error  *)
(* the request is answered 500, the order it inserted stays in the order   *)
(* collection with is_placed true, and the cart collection is unchanged.   *)
C12_FailedCartDeletionKeepsOrder ==
    [][\A t \in Presentable :
          create_order_delete_cart_raises(t)
          => (/\ resp'.status = 500
              /\ OrderInserted
              /\ InsertedOrder.user_id = ResolvesTo(t).id
              /\ InsertedOrder.is_placed = TRUE
              /\ InsertedOrder.product_ids = add_products_from_cart(carts, ResolvesTo(t).id)
              /\ carts' = carts)]_vars

C12_Witness ==
    /\ resp.op = "create_order" /\ resp.status = 500
    /\ resp.body = "500: storage error"
    /\ Authenticated(resp.token)
    /\ HasCart(carts, ResolvesTo(resp.token).id)
    /\ Len(carts[ResolvesTo(resp.token).id]) > 0
    /\ Len(orders) > 0
    /\ orders[Len(orders)].is_placed
    /\ orders[Len(orders)].product_ids = Some(carts[ResolvesTo(resp.token).id])

(* C13: the write of a cart request stores the cart the request read with  *)
(* its own change applied and is answered with success, whatever other     *)
(* requests of the same user stored between its read and its write: their  *)
(* changes are lost.                                                       *)
IsCartWrite(i) == add_item_update(i) \/ remove_item_update(i)

ReadCart(c) == IF c.cart = None THEN <<>> ELSE c.cart[1]

C13_StaleWriteOverwrites ==
    [][\A i \in 1..Len(calls) :
          IsCartWrite(i)
          => (/\ resp'.status = 200
              /\ HasCart(carts', calls[i].user_id)
              /\ carts'[calls[i].user_id] =
                    IF calls[i].op = "add_item"
                    THEN add_items(ReadCart(calls[i]), calls[i].product_id,
                                   calls[i].quantity)
                    ELSE remove_lines(ReadCart(calls[i]), calls[i].product_id))]_vars

(* Two add_item requests of one user for different products, both answered *)
(* with success, and a stored cart with the line of only one of them       *)
C13_Witness ==
    /\ Len(calls) = 2
    /\ \A i \in 1..2 : calls[i].op = "add_item" /\ calls[i].pc = "done"
                       /\ calls[i].status = 200 /\ calls[i].cart = None
    /\ calls[1].user_id = calls[2].user_id
    /\ calls[1].product_id # calls[2].product_id
    /\ HasCart(carts, calls[1].user_id)
    /\ Len(carts[calls[1].user_id]) = 1

(* C14: an add_item write that lands after create_order deleted the cart   *)
(* the request had read stores the cart again, with every line the         *)
(* request read in it.                                                     *)
C14_StaleWriteRestoresCart ==
    [][\A i \in 1..Len(calls) :
          (/\ add_item_update(i)
           /\ calls[i].cart # None
           /\ ~HasCart(carts, calls[i].user_id))
          => (/\ HasCart(carts', calls[i].user_id)
              /\ \A k \in 1..Len(calls[i].cart[1]) :
                    HasLine(carts'[calls[i].user_id], calls[i].cart[1][k].product_id))]_vars

(* create_order answered with success, and the user's cart stored again    *)
(* with the lines of the persisted order in it                             *)
C14_Witness ==
    \E i, j \in 1..Len(calls) :
        /\ calls[j].op = "create_order" /\ calls[j].pc = "done" /\ calls[j].status = 200
        /\ calls[i].op = "add_item" /\ calls[i].pc = "done" /\ calls[i].status = 200
        /\ calls[i].user_id = calls[j].user_id
        /\ calls[i].cart # None
        /\ \E n \in 1..Len(orders) :
              /\ orders[n].id = calls[j].order_id
              /\ orders[n].is_placed
              /\ orders[n].product_ids = calls[i].cart
              /\ Len(LinesOf(orders[n])) > 0
              /\ HasCart(carts, calls[j].user_id)
              /\ \A k \in 1..Len(LinesOf(orders[n])) :
                    HasLine(carts[calls[j].user_id], LinesOf(orders[n])[k].product_id)

(* C15: the insert of an add_user (add_admin) request that passed the      *)
(* existence check appends its document and is answered with success even  *)
(* when a document with the same email has been stored since the check.    *)
C15_InsertIgnoresLaterDuplicates ==
    [][\A i \in 1..Len(calls) :
          /\ add_user_insert(i)
                => (/\ Len(users') = Len(users) + 1
                    /\ users'[Len(users')].email = calls[i].email
                    /\ resp'.status = 200)
          /\ add_admin_insert(i)
                => (/\ Len(admins') = Len(admins) + 1
                    /\ admins'[Len(admins')].email = calls[i].email
                    /\ resp'.status = 200)]_vars

(* Two add_user requests with one email, both answered with success, and   *)
(* two user documents with that email                                      *)
C15_Witness ==
    /\ Len(calls) = 2
    /\ \A i \in 1..2 : calls[i].op = "add_user" /\ calls[i].pc = "done"
                       /\ calls[i].status = 200
    /\ calls[1].email = calls[2].email
    /\ Len(users) = 2
    /\ users[1].email = users[2].email
    /\ users[1].id # users[2].id

(* C16: an add_user request whose email has a document in the user         *)
(* collection leaves the collection unchanged and is answered 200 with     *)
(* the "already exist" message; with whole add_user requests no two user   *)
(* documents have the same email.                                          *)
NoDuplicateEmails(col) ==
    \A i, j \in 1..Len(col) : i # j => col[i].email # col[j].email

C16_ExistingEmailInsertsNothing ==
    [][/\ NoDuplicateEmails(users')
       /\ \A e \in Emails, p \in RegPasswords, a \in RegAddresses, adm \in BOOLEAN :
             (add_user(e, p, a, adm) /\ IndexByEmail(users, e) # 0)
             => (/\ users' = users
                 /\ UNCHANGED <<admins, products, carts, orders, ids>>
                 /\ resp'.status = 200
                 /\ resp'.body = "already exist")]_vars

C16_Witness ==
    /\ resp.op = "add_user" /\ resp.status = 200 /\ resp.body = "already exist"
    /\ Len(users) = 1
    /\ ids.user < MaxUsers

(* C20: an update_user_address request whose token resolves to no          *)
(* principal, or to an admin, is answered 401 "Could not validate          *)
(* credentials" and changes no collection.                                 *)
C20_AddressUpdateNeedsUser ==
    [][(/\ resp'.op = "update_user_address"
        /\ ~Authenticated(resp'.token) \/ resp'.token.role = "admin")
       => (/\ resp'.status = 401
           /\ resp'.body = "Could not validate credentials"
           /\ UNCHANGED store)]_vars

(* C17: a request during which a storage call raises is answered 500 with  *)
(* the exception's message as detail, and stores nothing.                  *)
StorageRaises ==
    \/ add_user_storage_raises
    \/ \E t \in Presentable : add_item_storage_raises(t) \/ get_items_storage_raises(t)

C17_StorageFailureIs500 ==
    [][StorageRaises
       => (resp'.status = 500 /\ resp'.body = "storage error" /\ UNCHANGED store)]_vars

(* C18: a page returned by get_user_orders holds only orders whose user_id *)
(* is the caller's id, and its Total is the number of stored orders with   *)
(* that user_id.                                                           *)
StoredOrdersOf(user_id) == {n \in 1..Len(orders) : orders[n].user_id = user_id}

C18_UserListingIsOwnOrders ==
    [][(resp'.op = "get_user_orders" /\ resp'.status = 200 /\ resp'.body = "page")
       => (/\ Len(resp'.listing.Orders) > 0
           /\ \A k \in 1..Len(resp'.listing.Orders) :
                 /\ resp'.listing.Orders[k].user_id = ResolvesTo(resp'.token).id
                 /\ \E n \in 1..Len(orders) : orders[n] = resp'.listing.Orders[k]
           /\ resp'.listing.Total
                 = Cardinality(StoredOrdersOf(ResolvesTo(resp'.token).id)))]_vars

C18_Witness ==
    /\ resp.op = "get_user_orders" /\ resp.status = 200 /\ resp.body = "page"
    /\ Len(orders) = 2
    /\ orders[1].user_id # orders[2].user_id
    /\ resp.listing.Total = 1
    /\ resp.listing.Orders = <<orders[2]>>

(* C19: a listing with page_no and page_size at least 1 is answered 200    *)
(* and changes no collection; it returns the orders (of the caller, for    *)
(* get_user_orders) at positions (page_no-1)*page_size + 1 up to           *)
(* (page_no-1)*page_size + page_size, and the "no more orders" message     *)
(* when there is no order at those positions.                              *)
Window(col, page_no, page_size) ==
    {k \in 1..Len(col) : /\ (page_no - 1) * page_size < k
                         /\ k <= (page_no - 1) * page_size + page_size}

IsWindowOf(col, page_no, page_size) ==
    IF Window(col, page_no, page_size) = {}
    THEN resp'.body = "No More Orders Left in the Order Collection"
    ELSE /\ resp'.body = "page"
         /\ resp'.listing.Page_No = page_no
         /\ resp'.listing.Page_Size = page_size
         /\ Len(resp'.listing.Orders) = Cardinality(Window(col, page_no, page_size))
         /\ \A k \in 1..Len(resp'.listing.Orders) :
               resp'.listing.Orders[k] = col[(page_no - 1) * page_size + k]

C19_ListingIsTheWindow ==
    [][\A t \in Presentable, n \in Pages, sz \in PageSizes :
          /\ (get_all_orders(t, n, sz) /\ CurrentAdmin(t).status = 200)
                => (/\ resp'.status = 200
                    /\ UNCHANGED store
                    /\ IsWindowOf(orders, n, sz))
          /\ (get_user_orders(t, n, sz) /\ Authenticated(t))
                => (/\ resp'.status = 200
                    /\ UNCHANGED store
                    /\ IsWindowOf(OrdersOf(orders, ResolvesTo(t).id), n, sz))]_vars

C19_Witness ==
    /\ resp.op = "get_all_orders" /\ resp.status = 200 /\ resp.body = "page"
    /\ Len(orders) = 2
    /\ resp.listing.Page_No = 2
    /\ resp.listing.Page_Size = 1
    /\ resp.listing.Total = 2
    /\ resp.listing.Orders = <<orders[2]>>

----------------------------------------------------------------------------
(* C21: update_user_address changes the address of a user document only    *)
(* when that document's email is the email of the principal the request's  *)
(* token resolves to.                                                      *)
C21_OnlyOwnAddressChanges ==
    [][resp'.op = "update_user_address"
       => \A i \in 1..Len(users) :
             (Len(users') = Len(users) /\ users'[i].address # users[i].address)
             => (/\ Authenticated(resp'.token)
                 /\ users[i].email = ResolvesTo(resp'.token).email)]_vars

(* C22: no response carries a password hash: a document returned to the    *)
(* client has no password field.                                           *)
C22_NoPasswordInResponses ==
    [][("doc" \in DOMAIN resp') => ("password" \notin DOMAIN resp'.doc)]_vars

(* C23: a remove_item or delete_cart request of a user who has no cart is  *)
(* answered 404 "Cart not found" and leaves the cart collection unchanged. *)
C23_NoCartIs404 ==
    [][(/\ resp'.op \in {"remove_item", "delete_cart"}
        /\ Authenticated(resp'.token)
        /\ ~HasCart(carts, ResolvesTo(resp'.token).id))
       => (/\ resp'.status = 404
           /\ resp'.body = "Cart not found"
           /\ carts' = carts)]_vars

(* C24: a stored order keeps every field under every later request: price  *)
(* and quantity updates, product deletion, cart requests, further orders   *)
(* and account deletion leave it as it was inserted; the only request that *)
(* affects a stored order is an admin's delete_order, which removes it.    *)
C24_StoredOrdersNeverChange ==
    [][\A n \in 1..Len(orders) :
          \/ \E m \in 1..Len(orders') : orders'[m] = orders[n]
          \/ /\ resp'.op = "delete_order"
             /\ resp'.status = 200
             /\ CurrentAdmin(resp'.token).status = 200
             /\ orders' = RemoveAt(orders, n)]_vars

C24_Witness ==
    /\ resp.op = "update_product_price" /\ resp.status = 200
    /\ Len(orders) = 2
    /\ orders[1].amount = 50
    /\ orders[1].all_product = <<[id |-> <<"product", 1>>, price |-> 50]>>
    /\ Len(products) = 1 /\ products[1].price = 100

(* C25: a request that passed its dependency and names an entity that is   *)
(* not stored (delete_order, delete_product, update_product_price,         *)
(* update_product_quantity with an unknown id; update_user_address,        *)
(* delete_user with an unknown email) is answered 200 with the             *)
(* does-not-exist message and leaves every collection unchanged.           *)
NamesMissingEntity ==
    LET t == resp'.token IN
    \/ /\ resp'.op = "delete_order"
       /\ CurrentAdmin(t).status = 200
       /\ \E id \in AnyOrderId : IndexById(orders, id) = 0 /\ delete_order(t, id)
    \/ /\ resp'.op \in {"delete_product", "update_product_price", "update_product_quantity"}
       /\ CurrentAdmin(t).status = 200
       /\ \E id \in AnyProductId :
             /\ IndexById(products, id) = 0
             /\ \/ delete_product(t, id)
                \/ update_product_price(t, id, 100)
                \/ update_product_quantity(t, id, 6)
    \/ /\ resp'.op = "delete_user"
       /\ CurrentAdmin(t).status = 200
       /\ \E e \in Emails : IndexByEmail(users, e) = 0 /\ delete_user(t, e)
    \/ /\ resp'.op = "update_user_address"
       /\ CurrentUser(t).status = 200
       /\ \E e \in Emails : IndexByEmail(users, e) = 0 /\ update_user_address(t, e, "addr2")

C26_UsersNeverPassAdminCheck ==
    [][/\ \A i \in 1..Len(users') : ~users'[i].is_admin
       /\ (resp'.op \in AdminOnlyOps /\ resp'.token.role = "user")
          => resp'.status # 200]_vars

(* C27: a token resolves only to the account it was issued to: when a      *)
(* request presents a token that login issued to the document with id X    *)
(* and its dependency resolves the token, the resolved document has id X,  *)
(* whatever accounts were deleted and registered again in between.         *)
C27_TokenResolvesToIssuedAccount ==
    [][(/\ resp'.op \notin OpenOps
        /\ "issued_to" \in DOMAIN resp'.token
        /\ Authenticated(resp'.token))
       => ResolvesTo(resp'.token).id = resp'.token.issued_to]_vars

(* C28: a cart becomes at most one order: when the only requests in flight *)
(* or answered since the cart was filled are create_order requests, at     *)
(* most one stored order has a non-empty product_ids snapshot.             *)
OrdersWithLines ==
    {n \in 1..Len(orders) :
        orders[n].product_ids # None /\ Len(orders[n].product_ids[1]) > 0}

C28_CartBecomesOneOrder ==
    (\A i \in 1..Len(calls) : calls[i].op = "create_order")
    => Cardinality(OrdersWithLines) <= 1

(* C29: every line of every stored cart has a quantity of at least 1,      *)
(* whatever integer quantities add_item requests carry, and every stored   *)
(* order has an amount of at least 0.                                      *)
C29_QuantitiesAndAmountsArePositive ==
    /\ \A u \in DOMAIN carts : \A i \in 1..Len(carts[u]) : carts[u][i].quantity >= 1
    /\ \A n \in 1..Len(orders) : orders[n].amount >= 0

(* C30, as stated: the user_id of an inserted order is the id of a         *)
(* document that is in the user collection when create_order looks it up;  *)
(* a create_order request with an admin's token, or with a token issued to *)
(* a user document that has since been deleted, inserts no order and       *)
(* deletes no cart.                                                        *)
IssuedToDeletedUser(t) ==
    /\ "issued_to" \in DOMAIN t
    /\ t.role = "user"
    /\ IndexById(users, t.issued_to) = 0

ResolvesToNoUser(t) ==
    LET auth == CurrentUser(t) IN
    auth.status # 200 \/ IndexById(users, auth.doc[1].id) = 0

============================================================================
